---- MODULE Spec2Model ----
(***************************************************************************)
(* Model of scrapers/ochmo-scraper.py: the PdfReport metadata extractor    *)
(* and the NasaScraper collection scraper.                                 *)
(*                                                                         *)
(* Strings are sequences of one-character strings, so that the regular     *)
(* expressions, upper(), title(), replace() and urljoin() of the source    *)
(* are computed character by character, as Python computes them.           *)
(***************************************************************************)
EXTENDS Integers, Sequences, FiniteSets, TLC

(***************************************************************************)
(* Bounds of the model.                                                    *)
(***************************************************************************)
MaxLinks  == 2   \* hyperlinks on the listing page
MaxLimit  == 2   \* largest limit passed to scrape_reports
MaxParses == 2   \* parse() calls issued on one PdfReport by a client
MaxDigits == 2   \* digits of the number in a generated URL
MaxChunks == 3   \* text chunks making up a generated first page

\* Optional values: Python's None, and a present value v
None    == <<>>
Some(v) == <<v>>

(***************************************************************************)
(* Characters.                                                             *)
(***************************************************************************)
LowerCase == <<"a","b","c","d","e","f","g","h","i","j","k","l","m",
               "n","o","p","q","r","s","t","u","v","w","x","y","z">>
UpperCase == <<"A","B","C","D","E","F","G","H","I","J","K","L","M",
               "N","O","P","Q","R","S","T","U","V","W","X","Y","Z">>
Range(f)  == {f[i] : i \in DOMAIN f}
Digits    == {"0","1","2","3","4","5","6","7","8","9"}
Spaces    == {" ", "\t", "\n"}
Letters   == Range(LowerCase) \cup Range(UpperCase)
Puncts    == {"-", ".", "?", "/", ":", ",", "[", "]", "_", "="}
WordChars == Letters \cup Digits \cup {"_"}
AllChars  == Letters \cup Digits \cup Spaces \cup Puncts
AnyChar   == AllChars \ {"\n"}            \* "." without re.DOTALL

\* str.upper() and str.lower() on one character
UpperMap == [c \in Range(LowerCase) |->
               UpperCase[CHOOSE i \in DOMAIN LowerCase : LowerCase[i] = c]]
LowerMap == [c \in Range(UpperCase) |->
               LowerCase[CHOOSE i \in DOMAIN UpperCase : UpperCase[i] = c]]
UpperChar(c) == IF c \in DOMAIN UpperMap THEN UpperMap[c] ELSE c
LowerChar(c) == IF c \in DOMAIN LowerMap THEN LowerMap[c] ELSE c

\* str.upper()
Upper(s) == [i \in 1..Len(s) |-> UpperChar(s[i])]

\* str.title(): a cased character is upper-cased when it follows an uncased
\* character (or starts the string), lower-cased otherwise
TitleCase(s) ==
  [i \in 1..Len(s) |->
     IF i = 1 \/ s[i-1] \notin Letters THEN UpperChar(s[i]) ELSE LowerChar(s[i])]

\* s[a:b] of Python with 0 <= a <= b <= len(s), in 1-based positions a..b-1
Slice(s, a, b) == SubSeq(s, a, b - 1)

IsPrefixAt(s, i, w) ==
  /\ i + Len(w) - 1 <= Len(s)
  /\ \A j \in 1..Len(w) : s[i + j - 1] = w[j]

\* str.replace(old, new): leftmost non-overlapping occurrences
RECURSIVE ReplaceFrom(_, _, _, _)
ReplaceFrom(s, i, old, new) ==
  LET hits == {p \in i..Len(s) : IsPrefixAt(s, p, old)}
  IN  IF hits = {} THEN SubSeq(s, i, Len(s))
      ELSE LET p == CHOOSE p \in hits : \A q \in hits : p <= q
           IN  SubSeq(s, i, p - 1) \o new \o ReplaceFrom(s, p + Len(old), old, new)
Replace(s, old, new) == ReplaceFrom(s, 1, old, new)

(***************************************************************************)
(* Regular expressions, as the re module matches them.  A pattern is a     *)
(* sequence of items; an item is a character class with a repetition       *)
(* range, greedy or lazy.  MatchFrom is the backtracking matcher: it       *)
(* returns <<>> when the items k.. do not match at position i, and         *)
(* otherwise the start position of every item from k on, followed by the   *)
(* position after the match.                                               *)
(***************************************************************************)
Unbounded == 0 - 1
One(cls)      == [cls |-> cls, lo |-> 1, hi |-> 1, lazy |-> FALSE]
Opt(cls)      == [cls |-> cls, lo |-> 0, hi |-> 1, lazy |-> FALSE]
Star(cls)     == [cls |-> cls, lo |-> 0, hi |-> Unbounded, lazy |-> FALSE]
Plus(cls)     == [cls |-> cls, lo |-> 1, hi |-> Unbounded, lazy |-> FALSE]
LazyStar(cls) == [cls |-> cls, lo |-> 0, hi |-> Unbounded, lazy |-> TRUE]

\* a literal character, and a literal word, under re.IGNORECASE
Lit(c)  == {c, UpperChar(c), LowerChar(c)}
Lits(w) == [i \in 1..Len(w) |-> One(Lit(w[i]))]

\* the most characters of cls, at most hi of them, that s has from position i
RunLength(cls, s, i, hi) ==
  LET left  == Len(s) - i + 1
      room  == IF hi = Unbounded \/ left < hi THEN left ELSE hi
      stops == {j \in i..(i + room - 1) : s[j] \notin cls}
  IN  IF stops = {} THEN room
      ELSE (CHOOSE j \in stops : \A q \in stops : j <= q) - i

\* the last of the items k.. that take exactly one character each, k - 1 if
\* item k is not one
FixedTo(pat, k) ==
  LET vary == {j \in k..Len(pat) : pat[j].lo # 1 \/ pat[j].hi # 1}
  IN  IF vary = {} THEN Len(pat)
      ELSE (CHOOSE j \in vary : \A q \in vary : j <= q) - 1

\* the repetition count the matcher settles on: of those after which the
\* rest of the pattern matches, the largest for a greedy item and the
\* smallest for a lazy one
FirstOf(tries, i, lazy) ==
  LET good == {t \in tries : t[2] # <<>>}
  IN  IF good = {} THEN <<>>
      ELSE <<i>> \o (CHOOSE t \in good :
                       \A u \in good : IF lazy THEN t[1] <= u[1]
                                                ELSE t[1] >= u[1])[2]

RECURSIVE MatchFrom(_, _, _, _)
TryReps(pat, k, s, i, lo, max, lazy) ==
  CHOOSE m \in {FirstOf(tries, i, lazy) :
                  tries \in {{<<n, MatchFrom(pat, k + 1, s, i + n)>> :
                                n \in lo..max}}} : TRUE
MatchFrom(pat, k, s, i) ==
  IF k > Len(pat) THEN <<i>>
  ELSE LET e == FixedTo(pat, k)
       IN  IF e >= k
             THEN IF /\ i + (e - k) <= Len(s)
                     /\ \A j \in k..e : s[i + j - k] \in pat[j].cls
                    THEN LET rest == MatchFrom(pat, e + 1, s, i + e - k + 1)
                         IN  IF rest = <<>> THEN <<>>
                             ELSE [x \in 1..(e - k + 1) |-> i + x - 1] \o rest
                    ELSE <<>>
           ELSE LET it  == pat[k]
                    max == RunLength(it.cls, s, i, it.hi)
                IN  IF max < it.lo THEN <<>>
                    ELSE TryReps(pat, k, s, i, it.lo, max, it.lazy)

\* re.search from position from: the match at the leftmost position that has
\* one, <<>> if no position has
SearchFrom(pat, s, from) ==
  LET starts == {p \in from..(Len(s) + 1) : MatchFrom(pat, 1, s, p) # <<>>}
  IN  IF starts = {} THEN <<>>
      ELSE MatchFrom(pat, 1, s, CHOOSE p \in starts : \A q \in starts : p <= q)
Search(pat, s) == SearchFrom(pat, s, 1)

MatchStart(m) == m[1]
MatchEnd(m)   == m[Len(m)]
\* the text captured by the group spanning items a..b of the pattern
Group(s, m, a, b) == Slice(s, m[a], m[b + 1])

\* re.finditer: successive non-overlapping matches, left to right
RECURSIVE FindIterFrom(_, _, _)
FindIterFrom(pat, s, from) ==
  LET m == SearchFrom(pat, s, from)
  IN  IF m = <<>> THEN <<>>
      ELSE <<m>> \o FindIterFrom(pat, s,
                      IF MatchEnd(m) = MatchStart(m) THEN MatchEnd(m) + 1
                                                     ELSE MatchEnd(m))
FindIter(pat, s) == FindIterFrom(pat, s, 1)

(***************************************************************************)
(* The five patterns of the source, all compiled with re.IGNORECASE.       *)
(***************************************************************************)
W_ochmo  == <<"O","C","H","M","O","-">>
W_tb     == <<"T","B","-">>
W_pdf    == <<".","p","d","f">>
W_nasa   == <<"N","A","S","A">>
W_std    == <<"S","T","D">>
W_volume == <<"V","o","l","u","m","e">>
W_rev    == <<"R","e","v">>

\* r"(OCHMO-M?TB-\d+)"
IdPattern ==
  Lits(W_ochmo) \o <<Opt(Lit("M"))>> \o Lits(W_tb) \o <<Plus(Digits)>>

\* r"ochmo-m?tb-\d+-(.*?)\.pdf"; the group is item TitleGroup
TitlePattern ==
  Lits(W_ochmo) \o <<Opt(Lit("m"))>> \o Lits(W_tb)
    \o <<Plus(Digits), One(Lit("-")), LazyStar(AnyChar)>> \o Lits(W_pdf)
TitleGroup == 13

\* r"ochmo-m?tb-\d+.*\.pdf\?"
LinkPattern ==
  Lits(W_ochmo) \o <<Opt(Lit("m"))>> \o Lits(W_tb)
    \o <<Plus(Digits), Star(AnyChar)>> \o Lits(W_pdf) \o <<One(Lit("?"))>>

\* r"(NASA\s?-\s?STD\s?-\s?\d+\sVolume\s\d,\s?Rev\s\w)"
StdPattern ==
  Lits(W_nasa) \o <<Opt(Spaces), One({"-"}), Opt(Spaces)>>
    \o Lits(W_std) \o <<Opt(Spaces), One({"-"}), Opt(Spaces)>>
    \o <<Plus(Digits), One(Spaces)>> \o Lits(W_volume)
    \o <<One(Spaces), One(Digits), One({","}), Opt(Spaces)>>
    \o Lits(W_rev) \o <<One(Spaces), One(WordChars)>>

\* r"\[(V\d\s*\d+)\]"; the group is items 2..5
ReqPattern ==
  <<One({"["}), One(Lit("V")), One(Digits), Star(Spaces), Plus(Digits),
    One({"]"})>>

(***************************************************************************)
(* PdfReport.  A report is the record of its attributes.                   *)
(***************************************************************************)
\* __init__
PdfReport(url) ==
  [url |-> url, ochmo_id |-> None, title |-> None,
   technical_requirements_docs |-> <<>>, technical_requirements |-> <<>>,
   _pdf_bytes |-> None]

\* truth value of an optional string, and of optional bytes
TruthyStr(o)   == o # None /\ o[1] # <<>>
TruthyBytes(o) == o # None /\ o[1].kind # "empty"

\* The content of a response: b"" ("empty"), bytes PdfReader rejects
\* ("garbage"), a PDF without pages ("nopages"), a PDF whose first page
\* fails in extract_text ("badpage"), a PDF with first-page text ("pdf").
Doc(kind, text) == [kind |-> kind, text |-> text]
EmptyDoc == Doc("empty", <<>>)

\* _parse_ochmo_id that forgets upper()
_parse_ochmo_id_as_matched(r) ==
  LET pat      == IdPattern
      id_match == Search(pat, r.url)
  IN  IF id_match # <<>>
        THEN [r EXCEPT !.ochmo_id = Some(Group(r.url, id_match, 1, Len(pat)))]
        ELSE [r EXCEPT !.ochmo_id = None]

\* _parse_ochmo_id
_parse_ochmo_id(r) ==
  LET pat      == IdPattern
      id_match == Search(pat, r.url)
  IN  IF id_match # <<>>
        THEN [r EXCEPT !.ochmo_id = Some(Upper(Group(r.url, id_match, 1, Len(pat))))]
        ELSE [r EXCEPT !.ochmo_id = None]

\* _parse_title that takes the slug before ".pdf" whatever the identifier
_parse_title_unguarded(r) ==
  LET pat == <<One({"-"}), LazyStar(AnyChar)>> \o Lits(W_pdf)
      title_match == Search(pat, r.url)
  IN  IF title_match # <<>>
        THEN [r EXCEPT !.title =
                Some(TitleCase(Replace(Group(r.url, title_match, 2, 2),
                                       <<"-">>, <<" ">>)))]
        ELSE [r EXCEPT !.title = None]

\* _parse_title
_parse_title(r) ==
  IF ~TruthyStr(r.ochmo_id) THEN r
  ELSE LET title_match == Search(TitlePattern, r.url)
       IN  IF title_match # <<>>
             THEN [r EXCEPT !.title =
                     Some(TitleCase(Replace(
                       Group(r.url, title_match, TitleGroup, TitleGroup),
                       <<"-">>, <<" ">>)))]
             ELSE [r EXCEPT !.title = None]

\* _fetch_pdf_content that does not look at the cached bytes
_fetch_pdf_content_always(r, resp) ==
  IF resp.status = "ok"
    THEN [rep |-> [r EXCEPT !._pdf_bytes = Some(resp.content)],
          gets |-> 1, raised |-> FALSE]
    ELSE [rep |-> [r EXCEPT !._pdf_bytes = None], gets |-> 1, raised |-> FALSE]

\* _fetch_pdf_content that lets the RequestException through
_fetch_pdf_content_uncaught(r, resp) ==
  IF r._pdf_bytes = None
    THEN IF resp.status = "ok"
           THEN [rep |-> [r EXCEPT !._pdf_bytes = Some(resp.content)],
                 gets |-> 1, raised |-> FALSE]
           ELSE [rep |-> r, gets |-> 1, raised |-> TRUE]
    ELSE [rep |-> r, gets |-> 0, raised |-> FALSE]

\* _fetch_pdf_content that starts the report over when the fetch fails
_fetch_pdf_content_reset(r, resp) ==
  IF r._pdf_bytes = None
    THEN IF resp.status = "ok"
           THEN [rep |-> [r EXCEPT !._pdf_bytes = Some(resp.content)],
                 gets |-> 1, raised |-> FALSE]
           ELSE [rep |-> PdfReport(r.url), gets |-> 1, raised |-> FALSE]
    ELSE [rep |-> r, gets |-> 0, raised |-> FALSE]

\* _fetch_pdf_content with the response resp the server gives when asked:
\* rep is the report afterwards, gets the number of requests.get calls made,
\* raised whether an exception leaves the method
_fetch_pdf_content(r, resp) ==
  IF r._pdf_bytes = None
    THEN IF resp.status = "ok"
           THEN [rep |-> [r EXCEPT !._pdf_bytes = Some(resp.content)],
                 gets |-> 1, raised |-> FALSE]
           ELSE [rep |-> [r EXCEPT !._pdf_bytes = None],
                 gets |-> 1, raised |-> FALSE]
    ELSE [rep |-> r, gets |-> 0, raised |-> FALSE]

\* the matched texts of a pattern's group over all finditer matches
Groups(pat, s, a, b) ==
  LET ms == FindIter(pat, s) IN [i \in 1..Len(ms) |-> Group(s, ms[i], a, b)]

\* _parse_technical_requirements that skips a code it already holds
RECURSIVE AppendNew(_, _)
AppendNew(list, more) ==
  IF more = <<>> THEN list
  ELSE AppendNew(IF more[1] \in Range(list) THEN list ELSE Append(list, more[1]),
                 Tail(more))
_parse_technical_requirements_unique(r, page_text) ==
  LET trd == Groups(StdPattern, page_text, 1, Len(StdPattern))
      tr  == Groups(ReqPattern, page_text, 2, 5)
  IN  [r EXCEPT
         !.technical_requirements_docs =
            AppendNew(@, [i \in 1..Len(trd) |-> Replace(trd[i], <<" ","-">>, <<"-">>)]),
         !.technical_requirements = AppendNew(@, tr)]

\* _parse_technical_requirements
_parse_technical_requirements(r, page_text) ==
  LET trd == Groups(StdPattern, page_text, 1, Len(StdPattern))
      tr  == Groups(ReqPattern, page_text, 2, 5)
  IN  [r EXCEPT
         !.technical_requirements_docs =
            @ \o [i \in 1..Len(trd) |-> Replace(trd[i], <<" ","-">>, <<"-">>)],
         !.technical_requirements = @ \o tr]

\* parse, from "if not self._pdf_bytes" to its end
parse_pdf(r) ==
  IF ~TruthyBytes(r._pdf_bytes) THEN r
  ELSE LET doc == r._pdf_bytes[1]
       IN  IF doc.kind = "garbage" THEN r         \* PdfReader raises: caught
           ELSE IF doc.kind = "nopages" THEN r    \* not reader.pages
           ELSE IF doc.kind = "badpage" THEN r    \* extract_text raises: caught
           ELSE _parse_technical_requirements(r, doc.text)

(***************************************************************************)
(* urllib.parse.urljoin, for URLs without params and fragment.             *)
(***************************************************************************)
\* first position >= from of character c in s, 0 if none
IndexFrom(s, c, from) ==
  LET hits == {p \in from..Len(s) : s[p] = c}
  IN  IF hits = {} THEN 0 ELSE CHOOSE p \in hits : \A q \in hits : p <= q

\* str.split(c)
RECURSIVE SplitFrom(_, _, _)
SplitFrom(s, c, i) ==
  LET p == IndexFrom(s, c, i)
  IN  IF p = 0 THEN <<SubSeq(s, i, Len(s))>>
      ELSE <<SubSeq(s, i, p - 1)>> \o SplitFrom(s, c, p + 1)
Split(s, c) == SplitFrom(s, c, 1)

\* c.join(segs)
RECURSIVE Join(_, _)
Join(segs, c) ==
  IF segs = <<>> THEN <<>>
  ELSE IF Len(segs) = 1 THEN segs[1]
  ELSE segs[1] \o <<c>> \o Join(Tail(segs), c)

Suffix(s, i) == SubSeq(s, i, Len(s))

\* urlparse: scheme, netloc, path and query
urlparse(url) ==
  LET colon  == IndexFrom(url, ":", 1)
      hasSch == colon > 1 /\ \A j \in 1..(colon - 1) : url[j] \in Letters
      scheme == IF hasSch THEN SubSeq(url, 1, colon - 1) ELSE <<>>
      rest   == IF hasSch THEN Suffix(url, colon + 1) ELSE url
      hasLoc == IsPrefixAt(rest, 1, <<"/","/">>)
      slash  == IndexFrom(rest, "/", 3)
      quest0 == IndexFrom(rest, "?", 3)
      locEnd == IF slash > 0 /\ (quest0 = 0 \/ slash < quest0) THEN slash
                ELSE IF quest0 > 0 THEN quest0 ELSE Len(rest) + 1
      netloc == IF hasLoc THEN SubSeq(rest, 3, locEnd - 1) ELSE <<>>
      tail   == IF hasLoc THEN Suffix(rest, locEnd) ELSE rest
      quest  == IndexFrom(tail, "?", 1)
  IN  [scheme |-> scheme, netloc |-> netloc,
       path   |-> IF quest > 0 THEN SubSeq(tail, 1, quest - 1) ELSE tail,
       query  |-> IF quest > 0 THEN Suffix(tail, quest + 1) ELSE <<>>]

\* urlunparse
urlunparse(scheme, netloc, path, query) ==
  LET p == IF netloc # <<>>
             THEN <<"/","/">> \o netloc
                    \o (IF path # <<>> /\ path[1] # "/" THEN <<"/">> ELSE <<>>)
                    \o path
             ELSE path
      q == IF scheme # <<>> THEN scheme \o <<":">> \o p ELSE p
  IN  IF query # <<>> THEN q \o <<"?">> \o query ELSE q

\* the loop of urljoin that resolves "." and ".." segments
RECURSIVE ResolveSegments(_, _, _)
ResolveSegments(segments, k, resolved) ==
  IF k > Len(segments) THEN resolved
  ELSE IF segments[k] = <<".",".">>
         THEN ResolveSegments(segments, k + 1,
                IF resolved = <<>> THEN resolved
                ELSE SubSeq(resolved, 1, Len(resolved) - 1))
  ELSE IF segments[k] = <<".">> THEN ResolveSegments(segments, k + 1, resolved)
  ELSE ResolveSegments(segments, k + 1, Append(resolved, segments[k]))

UsesRelative == {<<>>, <<"h","t","t","p">>, <<"h","t","t","p","s">>}

\* the path of urljoin's result: the segments of the base path without its
\* last one, then those of the relative path, "." and ".." resolved
JoinedPath(bpath, path) ==
  LET bp0  == Split(bpath, "/")
      base_parts == IF bp0[Len(bp0)] # <<>>
                      THEN SubSeq(bp0, 1, Len(bp0) - 1) ELSE bp0
      seg0 == IF path[1] = "/" THEN Split(path, "/")
              ELSE base_parts \o Split(path, "/")
      filtered ==
        IF path[1] = "/" \/ Len(seg0) < 3 THEN seg0
        ELSE <<seg0[1]>>
               \o SelectSeq(SubSeq(seg0, 2, Len(seg0) - 1), LAMBDA x : x # <<>>)
               \o <<seg0[Len(seg0)]>>
  IN  CHOOSE joined \in
        { Join(IF segments[Len(segments)] \in {<<".">>, <<".",".">>}
                 THEN Append(ResolveSegments(segments, 1, <<>>), <<>>)
                 ELSE ResolveSegments(segments, 1, <<>>), "/") :
            segments \in {filtered} } : TRUE

\* urljoin on the parsed base b and the parsed url u; each part is bound
\* through a one-element set, so that it is computed once
JoinParsed(b, u, url) ==
  LET scheme == IF u.scheme = <<>> THEN b.scheme ELSE u.scheme
  IN  IF scheme # b.scheme \/ scheme \notin UsesRelative THEN url
      ELSE IF u.netloc # <<>>
             THEN urlunparse(scheme, u.netloc, u.path, u.query)
      ELSE IF u.path = <<>>
             THEN urlunparse(scheme, b.netloc, b.path,
                             IF u.query = <<>> THEN b.query ELSE u.query)
      ELSE CHOOSE r \in
             { urlunparse(scheme, b.netloc,
                          IF joined = <<>> THEN <<"/">> ELSE joined, u.query) :
                 joined \in {JoinedPath(b.path, u.path)} } : TRUE

urljoin(base, url) ==
  IF base = <<>> THEN url
  ELSE IF url = <<>> THEN base
  ELSE CHOOSE r \in
         { JoinParsed(b, u, url) : b \in {urlparse(base)}, u \in {urlparse(url)} } :
         TRUE

(***************************************************************************)
(* NasaScraper.                                                            *)
(***************************************************************************)
\* _list_pdf_links that lets the RequestException through
_list_pdf_links_uncaught(base_url, resp) ==
  IF resp.status # "ok" THEN [links |-> <<>>, raised |-> TRUE]
  ELSE LET hits == SelectSeq(resp.hrefs,
                     LAMBDA href : Search(LinkPattern, href) # <<>>)
       IN  [links  |-> [i \in 1..Len(hits) |-> urljoin(base_url, hits[i])],
            raised |-> FALSE]

\* _list_pdf_links, given the answer of the listing page: its status and the
\* href attributes of its <a> tags in document order
_list_pdf_links(base_url, resp) ==
  IF resp.status # "ok" THEN [links |-> <<>>, raised |-> FALSE]
  ELSE LET hits == SelectSeq(resp.hrefs,
                     LAMBDA href : Search(LinkPattern, href) # <<>>)
       IN  [links  |-> [i \in 1..Len(hits) |-> urljoin(base_url, hits[i])],
            raised |-> FALSE]

\* list[:limit] that takes one entry too many
SliceToInclusive(list, limit) ==
  IF limit = None THEN list
  ELSE LET k   == limit[1] + 1
           end == IF k >= 0 THEN (IF k < Len(list) THEN k ELSE Len(list))
                  ELSE (IF Len(list) + k > 0 THEN Len(list) + k ELSE 0)
       IN  SubSeq(list, 1, end)

\* list[:limit] of Python; limit is None, or Some(k) with k of either sign
SliceTo(list, limit) ==
  IF limit = None THEN list
  ELSE LET k   == limit[1]
           end == IF k >= 0 THEN (IF k < Len(list) THEN k ELSE Len(list))
                  ELSE (IF Len(list) + k > 0 THEN Len(list) + k ELSE 0)
       IN  SubSeq(list, 1, end)

\* scrape_reports that keeps every report
IsKeptAlways(report) == TRUE

\* "if report.ochmo_id" of scrape_reports
IsKept(report) == TruthyStr(report.ochmo_id)

(***************************************************************************)
(* Inputs.                                                                 *)
(***************************************************************************)
\* all sequences over S of length at most n
RECURSIVE SeqsUpTo(_, _)
SeqsUpTo(S, n) ==
  IF n = 0 THEN {<<>>}
  ELSE LET shorter == SeqsUpTo(S, n - 1)
       IN  shorter \cup {Append(q, x) : q \in shorter, x \in S}

RECURSIVE Concat(_)
Concat(ss) == IF ss = <<>> THEN <<>> ELSE ss[1] \o Concat(Tail(ss))

\* base_url of the scraper: "https://n/b/"
BaseUrl == <<"h","t","t","p","s",":","/","/","n","/","b","/">>

\* href attributes a listing page may carry
Hrefs ==
  { <<"o","c","h","m","o","-","m","t","b","-","1","2","-","c","r","e","w","-","r","i","s","k",".","p","d","f","?","v">>,   \* relative, identifier and title slug
    <<"h","t","t","p","s",":","/","/","c","/","O","C","H","M","O","-","T","B","-","7",".","p","d","f","?","v">>,   \* absolute, identifier without slug
    <<"o","c","h","m","o","-","t","b","-","3","/",".",".","/","a","-","b",".","p","d","f","?","v">>,   \* identifier in a segment that ".." removes
    <<"a","/","x",".","p","d","f">> }  \* not a document link

\* first-page texts of the documents served to the scraper
Text1 == <<"p","e","r"," ","N","A","S","A","-","S","T","D","-","3","0","0","1"," ","V","o","l","u","m","e"," ","2",","," ","R","e","v"," ","A"," ","a","n","d"," ","[","V","2"," ","1","0","4","]">>
Text2 == <<"s","e","e"," ","[","v","3"," ","7","]"," ","[","V","2"," ","1","0","4","]","\n","[","V","2"," ","1","0","4","]">>

Response(status, content) == [status |-> status, content |-> content]
Failures == {Response("conn_error", EmptyDoc), Response("http_error", EmptyDoc)}
Documents(texts) ==
  {EmptyDoc, Doc("garbage", <<>>), Doc("nopages", <<>>), Doc("badpage", <<>>)}
    \cup {Doc("pdf", t) : t \in texts}
Responses(texts) == Failures \cup {Response("ok", d) : d \in Documents(texts)}

ListingResponses ==
  {[status |-> st, hrefs |-> <<>>] : st \in {"conn_error", "http_error"}}
    \cup {[status |-> "ok", hrefs |-> hs] : hs \in SeqsUpTo(Hrefs, MaxLinks)}

Limits == {None} \cup {Some(k) : k \in (0 - 1)..MaxLimit}

\* URLs a client hands to PdfReport
ReportUrls == {urljoin(BaseUrl, h) : h \in Hrefs}

\* generated URLs: prefix, "ochmo-", "m", "tb-", digits, rest
DigitStrings == SeqsUpTo({"1", "2"}, MaxDigits)
GenUrls ==
  { Concat(<<pre, o, m, tb, dg, rest>>) :
      pre  \in {<<>>, <<"x","/">>, <<"O","c","h","m","o","-","T","B","-","7","/">>},
      o    \in {<<"o","c","h","m","o","-">>, <<"O","C","H","M","O","-">>, <<"o","c","h","m","o">>},
      m    \in {<<>>, <<"m">>, <<"M">>},
      tb   \in {<<"t","b","-">>, <<"T","B","-">>, <<"t","b">>},
      dg   \in DigitStrings,
      rest \in {<<>>, <<"-","c","r","e","w","-","r","i","s","k",".","p","d","f","?","v">>, <<".","p","d","f","?">>, <<"-","a",".","P","D","F">>, <<"-",".","p","d","f">>} }

\* generated first-page texts: up to MaxChunks chunks
Chunks ==
  { <<"N","A","S","A","-","S","T","D","-","3","0","0","1"," ","V","o","l","u","m","e"," ","2",","," ","R","e","v"," ","A">>,
    <<"n","a","s","a"," ","-","S","T","D"," ","-"," ","3","0","\t","v","o","l","u","m","e"," ","1",",","r","e","v","\n","b">>,
    <<"N","A","S","A","-","S","T","D","-","3"," ","V","o","l","u","m","e"," ","2",","," ","R","e","v"," ">>,
    <<"[","V","2"," ","1","0","4","]">>,
    <<"[","v","2","1","0","4","]"," ">>,
    <<" ">>,
    <<"N","A","S","A","-","S","T","D","-","3"," ","V","o","l"," ","2"," ","[","V"," ","2","]"," ","[","V","2"," ","1","\n">> }
GenTexts == {Concat(cs) : cs \in SeqsUpTo(Chunks, MaxChunks)}
GenUrl == <<"h","t","t","p","s",":","/","/","n","/","b","/","o","c","h","m","o","-","m","t","b","-","1","2","-","c","r","e","w","-","r","i","s","k",".","p","d","f","?","v">>

(***************************************************************************)
(* State.                                                                  *)
(***************************************************************************)
VARIABLES
  pc,        \* position of the caller: scrape_reports, or a client of PdfReport
  listing,   \* the answer of the listing page, once asked
  limit,     \* the limit argument of scrape_reports
  links,     \* what _list_pdf_links returned
  pdf_urls,  \* scrape_reports: pdf_urls
  idx,       \* scrape_reports: number of URLs the loop has taken
  reports,   \* scrape_reports: reports
  report,    \* the PdfReport at hand
  ppc,       \* position inside parse()
  served,    \* the answers the document server may give
  calls,     \* parse() calls made on report
  steps,     \* the steps the current parse() call has taken
  got,       \* the answer the current parse() call received, if it asked
  fetches,   \* requests.get calls made for documents
  prev,      \* report as the previous parse() call left it
  parsed     \* scrape_reports: every report with the answer it got, as parse() left it

vars == <<pc, listing, limit, links, pdf_urls, idx, reports, report, ppc,
          served, calls, steps, got, fetches, prev, parsed>>

scraperVars == <<listing, limit, links, pdf_urls, idx, reports, parsed>>

NoReport == PdfReport(<<>>)

Init ==
  /\ pc = "start" /\ listing = None /\ limit = None /\ links = <<>>
  /\ pdf_urls = <<>> /\ idx = 0 /\ reports = <<>>
  /\ report = NoReport /\ ppc = "idle"
  /\ served = Responses({Text1})
  /\ calls = 0 /\ steps = <<>> /\ got = None /\ fetches = 0
  /\ prev = None /\ parsed = <<>>

\* a client holding one PdfReport
InitClient(urls, answers) ==
  /\ pc = "client" /\ listing = None /\ limit = None /\ links = <<>>
  /\ pdf_urls = <<>> /\ idx = 0 /\ reports = <<>>
  /\ \E u \in urls : report = PdfReport(u)
  /\ ppc = "idle"
  /\ served \in answers
  /\ calls = 0 /\ steps = <<>> /\ got = None /\ fetches = 0
  /\ prev = None /\ parsed = <<>>

InitReport == InitClient(ReportUrls, {Responses({Text1, Text2})})
InitUrl    == InitClient(GenUrls, {Failures})
InitRefs   == InitClient({GenUrl}, {{Response("ok", Doc("pdf", t))} : t \in GenTexts})

(***************************************************************************)
(* parse(), step by step.                                                  *)
(***************************************************************************)
ParseOchmoId ==
  /\ ppc = "id"
  /\ report' = _parse_ochmo_id(report)
  /\ ppc' = "title"
  /\ steps' = Append(steps, "id")
  /\ UNCHANGED <<pc, served, calls, got, fetches, prev>>
  /\ UNCHANGED scraperVars

ParseTitle ==
  /\ ppc = "title"
  /\ report' = _parse_title(report)
  /\ ppc' = "fetch"
  /\ steps' = Append(steps, "title")
  /\ UNCHANGED <<pc, served, calls, got, fetches, prev>>
  /\ UNCHANGED scraperVars

FetchPdfContent ==
  /\ ppc = "fetch"
  /\ \E resp \in served :
       LET out == _fetch_pdf_content(report, resp)
       IN  /\ report' = out.rep
           /\ fetches' = fetches + out.gets
           /\ got' = IF out.gets > 0 THEN Some(resp) ELSE got
           /\ steps' = IF out.gets > 0 THEN Append(steps, "get") ELSE steps
           /\ ppc' = IF out.raised THEN "raised" ELSE "pdf"
           /\ pc' = IF out.raised THEN "raised" ELSE pc
  /\ UNCHANGED <<served, calls, prev>>
  /\ UNCHANGED scraperVars

ParsePdf ==
  /\ ppc = "pdf"
  /\ report' = parse_pdf(report)
  /\ ppc' = "ret"
  /\ steps' = Append(steps, "pdf")
  /\ UNCHANGED <<pc, served, calls, got, fetches, prev>>
  /\ UNCHANGED scraperVars

\* a client calls parse() on its report, for the first time or again
CallParse ==
  /\ pc = "client"
  /\ ppc \in {"idle", "ret"}
  /\ calls < MaxParses
  /\ prev' = IF ppc = "ret" THEN Some(report) ELSE None
  /\ calls' = calls + 1
  /\ steps' = <<>>
  /\ got' = None
  /\ ppc' = "id"
  /\ UNCHANGED <<pc, report, served, fetches>>
  /\ UNCHANGED scraperVars

(***************************************************************************)
(* scrape_reports.                                                         *)
(***************************************************************************)
\* pdf_urls = self._list_pdf_links()[:limit]; reports = []
ListPdfLinks ==
  /\ pc = "start"
  /\ \E resp \in ListingResponses, lim \in Limits :
       LET out == _list_pdf_links(BaseUrl, resp)
       IN  /\ listing' = Some(resp)
           /\ limit' = lim
           /\ links' = out.links
           /\ pdf_urls' = IF out.raised THEN <<>> ELSE SliceTo(out.links, lim)
           /\ pc' = IF out.raised THEN "raised" ELSE "loop"
  /\ reports' = <<>>
  /\ idx' = 0
  /\ UNCHANGED <<report, ppc, served, calls, steps, got, fetches, prev, parsed>>

\* for url in pdf_urls: report = PdfReport(url=url); report.parse() is called
NextUrl ==
  /\ pc = "loop"
  /\ idx < Len(pdf_urls)
  /\ report' = PdfReport(pdf_urls[idx + 1])
  /\ pc' = "parsing"
  /\ ppc' = "id"
  /\ calls' = 1
  /\ steps' = <<>>
  /\ got' = None
  /\ prev' = None
  /\ UNCHANGED <<served, fetches>>
  /\ UNCHANGED scraperVars

\* parse() has returned: if report.ochmo_id: reports.append(report)
Collect ==
  /\ pc = "parsing"
  /\ ppc = "ret"
  /\ reports' = IF IsKept(report) THEN Append(reports, report) ELSE reports
  /\ parsed' = Append(parsed, [rec |-> report, resp |-> got])
  /\ idx' = idx + 1
  /\ pc' = "loop"
  /\ ppc' = "idle"
  /\ UNCHANGED <<listing, limit, links, pdf_urls, report, served, calls, steps,
                 got, fetches, prev>>

\* return reports
Return ==
  /\ pc = "loop"
  /\ idx = Len(pdf_urls)
  /\ pc' = "done"
  /\ UNCHANGED <<listing, limit, links, pdf_urls, idx, reports, report, ppc,
                 served, calls, steps, got, fetches, prev, parsed>>

Next == ListPdfLinks \/ NextUrl \/ ParseOchmoId \/ ParseTitle
          \/ FetchPdfContent \/ ParsePdf \/ Collect \/ Return

NextClient == CallParse \/ ParseOchmoId \/ ParseTitle \/ FetchPdfContent \/ ParsePdf

Spec       == Init /\ [][Next]_vars
SpecReport == InitReport /\ [][NextClient]_vars
SpecUrl    == InitUrl /\ [][NextClient]_vars
SpecRefs   == InitRefs /\ [][NextClient]_vars

(***************************************************************************)
(* The shapes the patterns stand for, stated position by position.         *)
(***************************************************************************)
Min(S) == CHOOSE x \in S : \A y \in S : x <= y
Max(S) == CHOOSE x \in S : \A y \in S : x >= y
AllIn(s, a, b, cls) == \A j \in a..b : s[j] \in cls

\* w occurs in s at position i, the case of letters aside
CiPrefixAt(s, i, w) ==
  /\ i + Len(w) - 1 <= Len(s)
  /\ \A j \in 1..Len(w) : UpperChar(s[i + j - 1]) = UpperChar(w[j])

\* the ends e such that s[p..e-1] reads OCHMO-, an optional M, TB-, and one
\* or more digits, in either case of the letters
IdEnds(s, p) ==
  IF ~CiPrefixAt(s, p, W_ochmo) THEN {}
  ELSE { e \in (p + 10)..(Len(s) + 1) :
           \E m \in {0, 1} :
             /\ m = 1 => CiPrefixAt(s, p + 6, <<"M">>)
             /\ CiPrefixAt(s, p + 6 + m, W_tb)
             /\ e > p + 9 + m
             /\ AllIn(s, p + 9 + m, e - 1, Digits) }
IdStarts(s) == {p \in 1..Len(s) : IdEnds(s, p) # {}}
HasId(s)    == \E p \in 1..Len(s) : IdEnds(s, p) # {}

\* an identifier token is followed by "-", a slug on one line, and ".pdf"
HasSlug(s) ==
  \E p \in IdStarts(s) : \E e \in IdEnds(s, p) :
    /\ IsPrefixAt(s, e, <<"-">>)
    /\ \E q \in (e + 1)..Len(s) :
         /\ CiPrefixAt(s, q, W_pdf)
         /\ AllIn(s, e + 1, q - 1, AllChars \ {"\n"})

\* the ends e such that s[p..e-1] is a standards citation: NASA, "-", STD,
\* "-", digits, Volume and a digit, ",", Rev and a word character, with the
\* optional blanks a, b, c, d, f and n digits
StdEnds(s, p) ==
  LET at(i, cls) == i <= Len(s) /\ s[i] \in cls
      sp(i, n)   == n = 1 => at(i, Spaces)
      Fits(a, b, c, d, n, f) ==
        LET p1 == p + 4 + a
            p2 == p1 + 1 + b
            p3 == p2 + 3 + c
            p4 == p3 + 1 + d
            p5 == p4 + n
        IN  /\ sp(p + 4, a) /\ at(p1, {"-"}) /\ sp(p1 + 1, b)
            /\ CiPrefixAt(s, p2, W_std)
            /\ sp(p2 + 3, c) /\ at(p3, {"-"}) /\ sp(p3 + 1, d)
            /\ p5 <= Len(s)
            /\ AllIn(s, p4, p5 - 1, Digits)
            /\ at(p5, Spaces)
            /\ CiPrefixAt(s, p5 + 1, W_volume)
            /\ at(p5 + 7, Spaces) /\ at(p5 + 8, Digits)
            /\ at(p5 + 9, {","}) /\ sp(p5 + 10, f)
            /\ CiPrefixAt(s, p5 + 10 + f, W_rev)
            /\ at(p5 + 13 + f, Spaces)
            /\ at(p5 + 14 + f, WordChars)
  IN  IF ~CiPrefixAt(s, p, W_nasa) THEN {}
      ELSE { p + 24 + t[1] + t[2] + t[3] + t[4] + t[5] + t[6] :
               t \in { u \in {0, 1} \X {0, 1} \X {0, 1} \X {0, 1}
                               \X (1..(Len(s) - p)) \X {0, 1} :
                         Fits(u[1], u[2], u[3], u[4], u[5], u[6]) } }

\* the ends e such that s[p..e-1] is a bracketed requirement code
ReqEnds(s, p) ==
  IF ~(IsPrefixAt(s, p, <<"[">>) /\ CiPrefixAt(s, p + 1, <<"V">>)
         /\ p + 2 <= Len(s) /\ s[p + 2] \in Digits) THEN {}
  ELSE { e \in (p + 5)..(Len(s) + 1) :
           /\ s[e - 1] = "]"
           /\ \E k \in (p + 3)..(e - 2) :
                /\ AllIn(s, p + 3, k - 1, Spaces)
                /\ AllIn(s, k, e - 2, Digits) }

\* the tokens a left-to-right scan takes, each starting at or after the end
\* of the one before: <<start, end>> pairs
RECURSIVE ScanTokens(_, _)
ScanTokens(toks, from) ==
  LET later == {t \in toks : t[1] >= from}
  IN  IF later = {} THEN <<>>
      ELSE LET p == Min({t[1] : t \in later})
               t == CHOOSE t \in later : t[1] = p
           IN  <<t>> \o ScanTokens(toks, t[2])
StdTokens(s) == ScanTokens(UNION {{<<p, e>> : e \in StdEnds(s, p)} : p \in 1..Len(s)}, 1)
ReqTokens(s) == ScanTokens(UNION {{<<p, e>> : e \in ReqEnds(s, p)} : p \in 1..Len(s)}, 1)

(***************************************************************************)
(* Properties.                                                             *)
(***************************************************************************)
Records == [i \in 1..Len(parsed) |-> parsed[i].rec]
Occurs(list, x) == \E j \in 1..Len(list) : list[j] = x
Count(list, x) == Cardinality({j \in 1..Len(list) : list[j] = x})
\* the answer left the document without first-page text
NoText(answer) ==
  answer # None /\ (answer[1].status # "ok" \/ answer[1].content.kind # "pdf")

\* C1: the output of scrape_reports is the subsequence of the parsed reports,
\* taken in the order of the (limited) discovery list, whose identifier is
\* not None: a report is in the output iff its identifier is not None.
C1_FilteringLaw ==
  /\ Len(parsed) = idx
  /\ idx <= Len(pdf_urls)
  /\ \A i \in 1..Len(parsed) : parsed[i].rec.url = pdf_urls[i]
  /\ reports = SelectSeq(Records, LAMBDA r : r.ochmo_id # None)
C1_Witness ==
  /\ pc = "done"
  /\ Len(parsed) = 2
  /\ parsed[1].rec.ochmo_id = None
  /\ reports = <<parsed[2].rec>>

\* C2: with limit k >= 0 scrape_reports constructs and parses exactly
\* min(k, number of discovered URLs) reports, the first ones in discovery
\* order; with limit None it parses every discovered URL.
C2_LimitLaw ==
  pc = "done" =>
    /\ Len(parsed) = IF limit = None THEN Len(links)
                     ELSE IF limit[1] < 0 THEN Len(parsed)
                     ELSE IF limit[1] < Len(links) THEN limit[1] ELSE Len(links)
    /\ (limit = None \/ limit[1] >= 0) =>
          \A i \in 1..Len(parsed) : parsed[i].rec.url = links[i]
C2_Witness ==
  /\ pc = "done"
  /\ limit = Some(1)
  /\ Len(links) = 2
  /\ Len(parsed) = 1
  /\ parsed[1].rec.url = links[1]

\* C3: a second parse() on a PdfReport whose bytes are cached leaves the
\* report as the first parse() left it.
C3_Idempotent ==
  (pc = "client" /\ ppc = "ret" /\ prev # None
     /\ prev[1]._pdf_bytes # None /\ prev[1]._pdf_bytes = report._pdf_bytes)
    => report = prev[1]

\* C4 as claimed: between two documents and at the return of scrape_reports,
\* a parsed report whose URL carries an identifier and whose fetch or
\* first-page extraction failed has identifier and title, no references, and
\* is in the output.
C4_AsClaimed ==
  \A i \in 1..Len(parsed) :
    (pc # "parsing" /\ NoText(parsed[i].resp) /\ HasId(parsed[i].rec.url)) =>
      /\ parsed[i].rec.ochmo_id # None
      /\ parsed[i].rec.title # None
      /\ parsed[i].rec.technical_requirements_docs = <<>>
      /\ parsed[i].rec.technical_requirements = <<>>
      /\ Occurs(reports, parsed[i].rec)

\* C4 amended: such a report has an identifier, has a title exactly when its
\* URL continues the identifier with "-", a slug and ".pdf", has no
\* references, and is in the output.
C4_Amended ==
  \A i \in 1..Len(parsed) :
    (pc # "parsing" /\ NoText(parsed[i].resp) /\ HasId(parsed[i].rec.url)) =>
      /\ parsed[i].rec.ochmo_id # None
      /\ parsed[i].rec.title # None <=> HasSlug(parsed[i].rec.url)
      /\ parsed[i].rec.technical_requirements_docs = <<>>
      /\ parsed[i].rec.technical_requirements = <<>>
      /\ Occurs(reports, parsed[i].rec)
C4_Witness ==
  /\ pc = "done"
  /\ \E i \in 1..Len(parsed) :
       /\ parsed[i].resp # None /\ parsed[i].resp[1].status # "ok"
       /\ parsed[i].rec.ochmo_id # None
       /\ parsed[i].rec.title # None
       /\ Occurs(reports, parsed[i].rec)

\* C5: no failure of a document's fetch or PDF parse leaves parse() or
\* scrape_reports by an exception; scrape_reports goes on until every URL of
\* the list has been constructed and parsed, and what a report holds depends
\* on its own URL and answer only.
C5_Isolation ==
  /\ pc # "raised" /\ ppc # "raised"
  /\ pc = "parsing" => ppc \in {"id", "title", "fetch", "pdf", "ret"}
  /\ pc = "done" => Len(parsed) = Len(pdf_urls)
  /\ \A i, j \in 1..Len(parsed) :
       (parsed[i].rec.url = parsed[j].rec.url /\ parsed[i].resp = parsed[j].resp)
         => parsed[i].rec = parsed[j].rec
C5_Witness ==
  /\ pc = "done"
  /\ Len(parsed) = 2
  /\ parsed[1].resp[1].status # "ok"
  /\ parsed[2].resp[1].status = "ok"
  /\ parsed[2].rec.technical_requirements # <<>>

\* C6: when the listing page cannot be retrieved, _list_pdf_links returns an
\* empty list without raising, and scrape_reports returns an empty list
\* without constructing, fetching or parsing any document.
C6_ListingFailure ==
  (listing # None /\ listing[1].status # "ok") =>
    /\ pc \in {"loop", "done"}
    /\ links = <<>> /\ pdf_urls = <<>> /\ reports = <<>>
    /\ report = NoReport /\ fetches = 0 /\ parsed = <<>>
C6_Witness ==
  /\ pc = "done"
  /\ listing # None /\ listing[1].status = "http_error"
  /\ reports = <<>>

\* C7: in every state of a PdfReport the title is None whenever the
\* identifier is None.
C7_TitleNeedsId == report.ochmo_id = None => report.title = None
C7_Witness ==
  /\ pc = "client" /\ ppc = "ret" /\ calls >= 2
  /\ report.ochmo_id = None /\ report.title = None
  /\ report._pdf_bytes # None

\* C8: _parse_ochmo_id sets the identifier to the leftmost token of the shape
\* OCHMO-, optional M, TB-, digits (letters in either case, all the digits
\* that follow), upper-cased; to None when the URL has no such token; and
\* it does not raise.
C8_Identifier ==
  ppc \in {"title", "fetch", "pdf", "ret"} =>
    LET url == report.url
    IN  IF IdStarts(url) = {} THEN report.ochmo_id = None
        ELSE LET p == Min(IdStarts(url))
                 e == Max(IdEnds(url, p))
             IN  report.ochmo_id = Some(Upper(SubSeq(url, p, e - 1)))
C8_Witness ==
  /\ ppc = "title"
  /\ Cardinality(IdStarts(report.url)) = 2
  /\ report.ochmo_id = Some(<<"O","C","H","M","O","-","T","B","-","7">>)

\* C9: on a fresh report the reference scan leaves as many standards and
\* requirements as the text has non-overlapping matches of the pattern, in
\* order of appearance, duplicates kept; with no match the list is empty.
C9_References ==
  (ppc = "ret" /\ calls = 1) =>
    LET text == got[1].content.text
        stds == StdTokens(text)
        reqs == ReqTokens(text)
    IN  /\ report.technical_requirements_docs =
             [i \in 1..Len(stds) |->
                Replace(SubSeq(text, stds[i][1], stds[i][2] - 1), <<" ","-">>, <<"-">>)]
        /\ report.technical_requirements =
             [i \in 1..Len(reqs) |-> SubSeq(text, reqs[i][1] + 1, reqs[i][2] - 2)]
C9_Witness ==
  /\ ppc = "ret" /\ calls = 1
  /\ Len(report.technical_requirements_docs) = 2
  /\ report.technical_requirements_docs[1] = report.technical_requirements_docs[2]
  /\ Len(report.technical_requirements) = 1

\* C10: a step of parse() issues a fetch exactly when it is the fetch step and
\* no bytes are cached; cached bytes are never dropped, so no fetch follows a
\* successful one; a failed fetch leaves the cache empty; one parse() call
\* issues at most one fetch, and only after the identifier and the title
\* steps.
C10_FetchCaching ==
  [][ /\ fetches' = IF ppc = "fetch" /\ report._pdf_bytes = None
                      THEN fetches + 1 ELSE fetches
      /\ report._pdf_bytes # None => report'._pdf_bytes = report._pdf_bytes
      /\ (fetches' # fetches /\ got'[1].status # "ok") => report'._pdf_bytes = None
      /\ Count(steps', "get") <= 1
      /\ Occurs(steps', "get") =>
           /\ SubSeq(steps', 1, 3) = <<"id", "title", "get">>
           /\ report' = _parse_title(_parse_ochmo_id(report'))
    ]_vars
C10_Witness ==
  /\ pc = "client" /\ ppc = "ret" /\ calls = 2
  /\ fetches = 1
  /\ ~Occurs(steps, "get")
  /\ report._pdf_bytes # None
====
